---- MODULE Spec2Model ----
(***************************************************************************)
(* A model of the voice-agent event records and Run Context                *)
(* (livekit/agents/voice/events.py) and of the AssemblyAI streaming        *)
(* recognition adapter (livekit/plugins/assemblyai/stt.py).                *)
(*                                                                         *)
(* The module holds three independent components, each with its own        *)
(* next-state relation over its own variables:                             *)
(*   SpecHandle  - a Speech Handle and the Run Contexts bound to it        *)
(*   SpecEvents  - construction and reading of the event records           *)
(*   SpecStt     - the STT object, its streams and one stream's _run loop  *)
(***************************************************************************)
EXTENDS Integers, Sequences, FiniteSets, TLC

\* ------------------------------------------------------------------ bounds

\* Most steps one Speech Handle gets.
MaxSteps == 3

\* The Run Contexts (one per tool invocation) that may be built on the handle.
RunContexts == {"rc1", "rc2"}

\* Most event records constructed in one run.
MaxEvents == 2

\* The last reading of the wall clock (time.time()); readings are 0 .. MaxTime.
MaxTime == 1

\* Most items (audio frames, flush sentinels) pushed to a stream's input.
MaxInput == 2

\* Most websocket connections one _run opens.
MaxConnections == 2

\* TEXT messages are received while the event channel is shorter than this.
MaxChannel == 1

VARIABLES
    \* ---- Speech Handle (speech_handle.py is not part of the sources; its
    \*      behaviour is the one the design document gives, sections 3 and 4.1)
    steps,                \* sequence of step statuses; step index i is steps[i+1]
    interrupted,          \* SpeechHandle.interrupted
    allow_interruptions,  \* SpeechHandle.allow_interruptions
    \* ---- Run Contexts: a function from the constructed contexts to records
    run_ctx,
    \* ---- Event records
    events,               \* the event records constructed so far, in order
    now,                  \* the wall clock read by created_at's default factory
    last_call,            \* outcome of the latest constructor or zipped() call
    \* ---- AssemblyAI STT and its streams
    stt_opts,             \* STT._opts
    streams,              \* STT._streams: the live streams, each with its
                          \* _opts and _reconnect_event
    \* ---- SpeechStream._run of the stream RunStream
    run_pc,               \* where _run is
    closing_ws,           \* _run's closing_ws
    conn,                 \* websocket connections opened so far
    ws_state,             \* "none", "open" or "closed": the current ws
    ws_config,            \* the live_config the current ws was opened with
    ws_sent,              \* what was sent on the current ws, in order
    sent_total,           \* audio sent on all the websockets so far, in units
    send_pc,              \* send_task of the current connection
    recv_pc,              \* recv_task of the current connection
    wait_pc,              \* wait_reconnect_task of the current connection
    remote,               \* what the service does on the current ws
    received,             \* parity of the messages recv_task has handled
    fault,                \* the exception a task or _run raised, if any
    bstream,              \* audio buffered in send_task's AudioByteStream
    frames,               \* frames of the current input item still to send
    input_ch,             \* SpeechStream._input_ch: items not yet consumed
    input_closed,         \* end_input() was called
    pushed,               \* items pushed to _input_ch so far
    event_ch,             \* SpeechStream._event_ch: the events emitted
    speech_duration       \* SpeechStream._speech_duration

hvars == <<steps, interrupted, allow_interruptions, run_ctx>>

evars == <<events, now, last_call>>

ovars == <<stt_opts, streams>>

rvars == <<run_pc, closing_ws, conn, ws_state, ws_config, ws_sent, sent_total,
           send_pc, recv_pc, wait_pc, remote, received, fault, bstream,
           frames, input_ch, input_closed, pushed, event_ch, speech_duration>>

\* What the actions of one component leave alone: the other components.
otherThanHandle == <<evars, ovars, rvars>>
otherThanEvents == <<hvars, ovars, rvars>>
otherThanStt == <<hvars, evars>>

vars == <<hvars, evars, ovars, rvars>>

\* ============================================================ Speech Handle

StepStatus == {"pending", "playing", "done", "cancelled"}
TerminalStatus == {"done", "cancelled"}

\* SpeechHandle.num_steps: the count of steps created so far.
num_steps == Len(steps)

\* The indices of the steps created so far (0-based, as in the program).
StepIndices == 0 .. (num_steps - 1)

StepTerminal(i) == i \in StepIndices /\ steps[i + 1] \in TerminalStatus

\* SpeechHandle.create_step: appends a pending step; not after interruption.
CreateStep ==
    /\ ~interrupted
    /\ num_steps < MaxSteps
    /\ steps' = Append(steps, "pending")
    /\ UNCHANGED <<interrupted, allow_interruptions, run_ctx, otherThanHandle>>

\* SpeechHandle.mark_step_playing: pending -> playing.
MarkStepPlaying(i) ==
    /\ i \in StepIndices
    /\ steps[i + 1] = "pending"
    /\ steps' = [steps EXCEPT ![i + 1] = "playing"]
    /\ UNCHANGED <<interrupted, allow_interruptions, run_ctx, otherThanHandle>>

\* SpeechHandle.mark_step_done: a step that is not yet terminal becomes done.
MarkStepDone(i) ==
    /\ i \in StepIndices
    /\ steps[i + 1] \notin TerminalStatus
    /\ steps' = [steps EXCEPT ![i + 1] = "done"]
    /\ UNCHANGED <<interrupted, allow_interruptions, run_ctx, otherThanHandle>>

\* SpeechHandle.interrupt: a one-time transition; every step not yet done is
\* cancelled and interrupted becomes true.
Interrupt ==
    /\ ~interrupted
    /\ interrupted' = TRUE
    /\ steps' = [k \in 1 .. Len(steps) |->
                    IF steps[k] \in TerminalStatus THEN steps[k] ELSE "cancelled"]
    /\ UNCHANGED <<allow_interruptions, run_ctx, otherThanHandle>>

\* The allow_interruptions setter: "ok" and the new flag, or the invalid-state
\* error with the flag as it was when the handle is already interrupted.
AllowInterruptionsSetter(value) ==
    IF interrupted
    THEN [outcome |-> "invalid_state", flag |-> allow_interruptions]
    ELSE [outcome |-> "ok", flag |-> value]

\* The controller setting the handle's policy directly.
SetAllowInterruptions(value) ==
    /\ AllowInterruptionsSetter(value).outcome = "ok"
    /\ allow_interruptions' = AllowInterruptionsSetter(value).flag
    /\ allow_interruptions' # allow_interruptions
    /\ UNCHANGED <<steps, interrupted, run_ctx, otherThanHandle>>

\* SpeechHandle._wait_for_generation(step_idx): what a waiter on that step
\* gets now: invalid-state for a step that was never created, the step's
\* outcome once it is terminal, and otherwise it stays suspended.
WaitForGeneration(step_idx) ==
    IF step_idx \notin StepIndices THEN "invalid_state"
    ELSE IF steps[step_idx + 1] = "done" THEN "returned"
    ELSE IF steps[step_idx + 1] = "cancelled" THEN "cancelled"
    ELSE "waiting"

\* ============================================================== Run Context

Constructed == DOMAIN run_ctx

\* RunContext.__init__: the step index captured at construction.
InitialStepIdx_OffByOne == num_steps
InitialStepIdx_Clamped == IF num_steps = 0 THEN 0 ELSE num_steps - 1
InitialStepIdx == num_steps - 1

\* RunContext.__init__
NewRunContext(r) ==
    /\ r \notin Constructed
    /\ run_ctx' = run_ctx @@ (r :> [initial_step_idx |-> InitialStepIdx,
                                     wait |-> "idle",
                                     disallow |-> "none"])
    /\ UNCHANGED <<steps, interrupted, allow_interruptions, otherThanHandle>>

\* RunContext.disallow_interruptions: the value handed to the setter.
DisallowValue_True == TRUE
DisallowValue == FALSE

\* RunContext.disallow_interruptions
DisallowInterruptions(r) ==
    /\ r \in Constructed
    /\ LET res == AllowInterruptionsSetter(DisallowValue) IN
        /\ allow_interruptions' = res.flag
        /\ run_ctx' = [run_ctx EXCEPT ![r].disallow = res.outcome]
    /\ UNCHANGED <<steps, interrupted, otherThanHandle>>

\* RunContext.wait_for_playout: the step whose generation is awaited.
WaitStepIdx_LastStep(r) == num_steps - 1
WaitStepIdx(r) == run_ctx[r].initial_step_idx

\* RunContext.wait_for_playout, the call: it returns at once when the step
\* is already terminal and suspends otherwise.
WaitForPlayout(r) ==
    /\ r \in Constructed
    /\ run_ctx[r].wait = "idle"
    /\ run_ctx' = [run_ctx EXCEPT ![r].wait = WaitForGeneration(WaitStepIdx(r))]
    /\ UNCHANGED <<steps, interrupted, allow_interruptions, otherThanHandle>>

\* RunContext.wait_for_playout, the suspended waiter being resumed.
WaitResume(r) ==
    /\ r \in Constructed
    /\ run_ctx[r].wait = "waiting"
    /\ WaitForGeneration(WaitStepIdx(r)) # "waiting"
    /\ run_ctx' = [run_ctx EXCEPT ![r].wait = WaitForGeneration(WaitStepIdx(r))]
    /\ UNCHANGED <<steps, interrupted, allow_interruptions, otherThanHandle>>


\* ============================================================ Event records

EventTypes == {"user_state_changed", "agent_state_changed",
               "user_input_transcribed", "conversation_item_added",
               "agent_false_interruption", "function_tools_executed",
               "metrics_collected", "speech_created", "error", "close"}

UserState == {"speaking", "listening", "away"}
AgentState == {"initializing", "idle", "listening", "thinking", "speaking"}

\* CloseReason: the members' values (the enum is @unique).
CloseReason == {"error", "job_shutdown", "participant_disconnected",
                "user_initiated", "task_completed"}

\* A field of a constructor call that the caller did not supply.
Missing == "<missing>"
None == "None"

\* ChatMessage (llm package): a conversation item tagged "message".
ChatMessage == {[type |-> "message", role |-> "assistant"]}

\* _TypeDiscriminator: the placeholder record, tagged "unknown".
TypeDiscriminator == {[type |-> "unknown"]}

\* Other tagged conversation items of the llm package, and no item at all.
OtherItems == {[type |-> "function_call"], [type |-> "None"]}

\* SpeechCreatedEvent.source
SpeechSource == {"say", "generate_reply", "tool_response"}

\* The function calls of one batch, and what a call's output may be.
Batch == <<"call_1", "call_2">>
FunctionCallOutputs == {"output"}

CallLists == {SubSeq(Batch, 1, n) : n \in 0 .. Len(Batch)}

OutputLists ==
    UNION {[1 .. n -> FunctionCallOutputs \cup {None}] : n \in 0 .. Len(Batch)}

\* What the constructor of a record does with a validated or rejected input:
\* the record exists from then on, or the call raised and nothing was built.
Construct(ev, verdict) ==
    /\ Len(events) < MaxEvents
    /\ IF verdict = "ok"
       THEN /\ events' = Append(events, ev)
            /\ last_call' = [op |-> ev.type, result |-> "ok"]
       ELSE /\ events' = events
            /\ last_call' = [op |-> ev.type, result |-> verdict]
    /\ UNCHANGED <<now, otherThanEvents>>

\* pydantic's check of a field against a Literal[...] or an Enum annotation.
InLiteral(value, literal) ==
    IF value \in literal THEN "ok" ELSE "ValidationError"

Both(a, b) == IF a # "ok" THEN a ELSE b

\* UserStateChangedEvent(old_state, new_state)
NewUserStateChanged(old, new) ==
    Construct([type |-> "user_state_changed", old_state |-> old,
               new_state |-> new, created_at |-> now],
              Both(InLiteral(old, UserState), InLiteral(new, UserState)))

\* AgentStateChangedEvent(old_state, new_state)
NewAgentStateChanged(old, new) ==
    Construct([type |-> "agent_state_changed", old_state |-> old,
               new_state |-> new, created_at |-> now],
              Both(InLiteral(old, AgentState), InLiteral(new, AgentState)))

\* UserInputTranscribedEvent(transcript, is_final, speaker_id = None)
NewUserInputTranscribed(transcript, is_final, speaker_id) ==
    Construct([type |-> "user_input_transcribed", transcript |-> transcript,
               is_final |-> is_final,
               speaker_id |-> IF speaker_id = Missing THEN None ELSE speaker_id,
               created_at |-> now],
              "ok")

\* AgentFalseInterruptionEvent(message, extra_instructions = None): message
\* is ChatMessage | None with no default, so it has to be supplied.
NewAgentFalseInterruption(message, extra_instructions) ==
    Construct([type |-> "agent_false_interruption", message |-> message,
               extra_instructions |->
                   IF extra_instructions = Missing THEN None
                   ELSE extra_instructions,
               created_at |-> now],
              InLiteral(message, ChatMessage \cup {[type |-> "None"]}))

\* MetricsCollectedEvent(metrics)
NewMetricsCollected(metrics) ==
    Construct([type |-> "metrics_collected", metrics |-> metrics,
               created_at |-> now],
              InLiteral(metrics, {"AgentMetrics"}))

\* ConversationItemAddedEvent.item: ChatMessage | _TypeDiscriminator
ItemAnnotation_Any == ChatMessage \cup TypeDiscriminator \cup OtherItems
ItemAnnotation == ChatMessage \cup TypeDiscriminator

\* ConversationItemAddedEvent(item)
NewConversationItemAdded(item) ==
    Construct([type |-> "conversation_item_added", item |-> item,
               created_at |-> now],
              InLiteral(item, ItemAnnotation))

\* FunctionToolsExecutedEvent.verify_lists_length (the "after" validator)
VerifyListsLength_Skipped(function_calls, function_call_outputs) == "ok"
VerifyListsLength(function_calls, function_call_outputs) ==
    IF Len(function_calls) # Len(function_call_outputs)
    THEN "ValueError"
    ELSE "ok"

\* FunctionToolsExecutedEvent(function_calls, function_call_outputs)
NewFunctionToolsExecuted(function_calls, function_call_outputs) ==
    Construct([type |-> "function_tools_executed",
               function_calls |-> function_calls,
               function_call_outputs |-> function_call_outputs,
               created_at |-> now],
              VerifyListsLength(function_calls, function_call_outputs))

\* zip(a, b): pairs position by position, as long as the shorter list.
RECURSIVE Zip(_, _)
Zip(a, b) ==
    IF a = <<>> \/ b = <<>> THEN <<>>
    ELSE <<<<Head(a), Head(b)>>>> \o Zip(Tail(a), Tail(b))

\* FunctionToolsExecutedEvent.zipped
Zipped_CompletedOnly(ev) ==
    Zip(ev.function_calls,
        SelectSeq(ev.function_call_outputs, LAMBDA o : o # None))
Zipped(ev) == Zip(ev.function_calls, ev.function_call_outputs)

\* A call of zipped() on the i-th record; the record is only read.
CallZipped_Consuming(i) ==
    /\ i \in 1 .. Len(events)
    /\ events[i].type = "function_tools_executed"
    /\ last_call' = [op |-> "zipped", result |-> Zipped(events[i])]
    /\ events' = [events EXCEPT ![i].function_call_outputs = <<>>,
                                ![i].function_calls = <<>>]
    /\ UNCHANGED <<now, otherThanEvents>>
CallZipped(i) ==
    /\ i \in 1 .. Len(events)
    /\ events[i].type = "function_tools_executed"
    /\ last_call' = [op |-> "zipped", result |-> Zipped(events[i])]
    /\ UNCHANGED <<events, now, otherThanEvents>>

\* SpeechCreatedEvent(user_initiated, source, speech_handle)
NewSpeechCreated(user_initiated, source) ==
    Construct([type |-> "speech_created", user_initiated |-> user_initiated,
               source |-> source, speech_handle |-> "handle",
               created_at |-> now],
              InLiteral(source, SpeechSource))

\* ErrorEvent(error, source): both fields admit Any.
NewError(error, source) ==
    Construct([type |-> "error", error |-> error, source |-> source,
               created_at |-> now],
              "ok")

\* CloseEvent.reason: CloseReason, with no default.
ReasonAnnotation_Optional == CloseReason \cup {Missing}
ReasonAnnotation == CloseReason

\* CloseEvent(error = None, reason)
NewClose(error, reason) ==
    Construct([type |-> "close",
               error |-> IF error = Missing THEN None ELSE error,
               reason |-> reason, created_at |-> now],
              InLiteral(reason, ReasonAnnotation))

\* time.time() moves on between two constructions.
Tick ==
    /\ now < MaxTime
    /\ now' = now + 1
    /\ UNCHANGED <<events, last_call, otherThanEvents>>

InitEvents ==
    /\ events = <<>>
    /\ now = 0
    /\ last_call = [op |-> "none", result |-> "ok"]

NextEvents ==
    \/ \E new \in {"listening", "idle"} :
          NewUserStateChanged("speaking", new)
    \/ \E new \in {"speaking", "away"} :
          NewAgentStateChanged("thinking", new)
    \/ NewUserInputTranscribed("hello", TRUE, Missing)
    \/ \E message \in ChatMessage \cup {[type |-> "function_call"]} :
          NewAgentFalseInterruption(message, Missing)
    \/ \E metrics \in {"AgentMetrics", None} : NewMetricsCollected(metrics)
    \/ \E item \in ChatMessage \cup TypeDiscriminator \cup OtherItems :
          NewConversationItemAdded(item)
    \/ \E function_calls \in CallLists, function_call_outputs \in OutputLists :
          NewFunctionToolsExecuted(function_calls, function_call_outputs)
    \/ \E i \in 1 .. MaxEvents : CallZipped(i)
    \/ \E source \in {"tool_response", "user"} :
          NewSpeechCreated(FALSE, source)
    \/ NewError("STTError", "stt")
    \/ \E reason \in CloseReason \cup {Missing, "timeout"} :
          NewClose(IF reason = "error" THEN "STTError" ELSE Missing, reason)
    \/ Tick


\* ============================================================ STT options

NOT_GIVEN == "NOT_GIVEN"

\* utils.is_given
is_given(value) == value # NOT_GIVEN

\* The fields of STTOptions that update_options can set.
UpdatableFields == {"buffer_size_seconds", "end_of_turn_confidence_threshold",
                    "min_end_of_turn_silence_when_confident",
                    "max_turn_silence"}

\* The values a caller supplies for a field.
OptionValues == {"v1", "v2"}

\* STTOptions as STT.__init__ builds it when only format_turns is supplied.
STTOptions(format_turns) ==
    [sample_rate |-> "16000",
     buffer_size_seconds |-> "0.05",
     encoding |-> "pcm_s16le",
     end_of_turn_confidence_threshold |-> NOT_GIVEN,
     min_end_of_turn_silence_when_confident |-> NOT_GIVEN,
     max_turn_silence |-> NOT_GIVEN,
     format_turns |-> format_turns]

\* The keyword arguments of one update_options call; the two end-of-turn
\* thresholds are given one value only, which keeps the set small.
UpdateArgs ==
    {args \in [UpdatableFields -> OptionValues \cup {NOT_GIVEN}] :
        /\ args.end_of_turn_confidence_threshold \in {NOT_GIVEN, "v1"}
        /\ args.min_end_of_turn_silence_when_confident \in {NOT_GIVEN, "v1"}}

\* STT.update_options, the assignments to self._opts.
STTUpdatedOpts(opts, args) ==
    [opts EXCEPT
        !.buffer_size_seconds =
            IF is_given(args.buffer_size_seconds)
            THEN args.buffer_size_seconds ELSE @,
        !.end_of_turn_confidence_threshold =
            IF is_given(args.end_of_turn_confidence_threshold)
            THEN args.end_of_turn_confidence_threshold ELSE @,
        !.min_end_of_turn_silence_when_confident =
            IF is_given(args.min_end_of_turn_silence_when_confident)
            THEN args.min_end_of_turn_silence_when_confident ELSE @,
        !.max_turn_silence =
            IF is_given(args.max_turn_silence)
            THEN args.max_turn_silence ELSE @]

\* SpeechStream.update_options, the assignments to self._opts.
StreamUpdatedOpts_FieldMixedUp(opts, args) ==
    [opts EXCEPT
        !.buffer_size_seconds =
            IF is_given(args.buffer_size_seconds)
            THEN args.buffer_size_seconds ELSE @,
        !.end_of_turn_confidence_threshold =
            IF is_given(args.end_of_turn_confidence_threshold)
            THEN args.end_of_turn_confidence_threshold ELSE @,
        !.min_end_of_turn_silence_when_confident =
            IF is_given(args.max_turn_silence)
            THEN args.max_turn_silence ELSE @,
        !.max_turn_silence =
            IF is_given(args.max_turn_silence)
            THEN args.max_turn_silence ELSE @]
StreamUpdatedOpts(opts, args) ==
    [opts EXCEPT
        !.buffer_size_seconds =
            IF is_given(args.buffer_size_seconds)
            THEN args.buffer_size_seconds ELSE @,
        !.end_of_turn_confidence_threshold =
            IF is_given(args.end_of_turn_confidence_threshold)
            THEN args.end_of_turn_confidence_threshold ELSE @,
        !.min_end_of_turn_silence_when_confident =
            IF is_given(args.min_end_of_turn_silence_when_confident)
            THEN args.min_end_of_turn_silence_when_confident ELSE @,
        !.max_turn_silence =
            IF is_given(args.max_turn_silence)
            THEN args.max_turn_silence ELSE @]

\* SpeechStream.update_options on one stream's record.
StreamUpdated_NoSignal(stream, args) ==
    [stream EXCEPT !.opts = StreamUpdatedOpts(@, args)]
StreamUpdated(stream, args) ==
    [stream EXCEPT !.opts = StreamUpdatedOpts(@, args),
                   !.reconnect_event = TRUE]

\* The streams STT._streams still holds.
Registered == DOMAIN streams

\* STT.stream: a stream with a copy of the STT's options, registered weakly.
Stream(s) ==
    /\ s \notin Registered
    /\ streams' = streams @@ (s :> [opts |-> stt_opts,
                                     reconnect_event |-> FALSE])
    /\ UNCHANGED <<stt_opts, rvars, otherThanStt>>

\* A stream nobody else holds is collected and leaves the WeakSet.
Collect(s) ==
    /\ s \in Registered
    /\ streams' = [t \in Registered \ {s} |-> streams[t]]
    /\ UNCHANGED <<stt_opts, rvars, otherThanStt>>

\* STT.update_options: the STT's own options, then every registered stream.
STTUpdateOptions(args) ==
    /\ stt_opts' = STTUpdatedOpts(stt_opts, args)
    /\ streams' = [s \in Registered |-> StreamUpdated(streams[s], args)]
    /\ UNCHANGED <<rvars, otherThanStt>>

\* SpeechStream.update_options, called on one stream.
StreamUpdateOptions(s, args) ==
    /\ s \in Registered
    /\ streams' = [streams EXCEPT ![s] = StreamUpdated(@, args)]
    /\ UNCHANGED <<stt_opts, rvars, otherThanStt>>


\* ======================================================= SpeechStream._run

\* The stream whose _run is followed.
RunStream == "s1"

Self == streams[RunStream]

NoFault == [kind |-> "none", retryable |-> FALSE]

\* APIStatusError(message): retryable unless a 4xx status code is given.
APIStatusError == [kind |-> "APIStatusError", retryable |-> TRUE]

\* What ws.send_bytes / ws.send_str raise on a lost connection.
SendError == [kind |-> "ClientConnectionResetError", retryable |-> FALSE]

\* What session.ws_connect raises when the connection cannot be made.
ConnectError == [kind |-> "ClientError", retryable |-> FALSE]

\* A task ends with an exception; gather keeps the first one raised.
Raised(task, exc) ==
    [fault EXCEPT ![task] = exc,
                  !.gather = IF @ = NoFault THEN exc ELSE @]

\* ---- the input channel (push_frame, flush, end_input of the base class)

\* Audio carried by one pushed frame, in units; a buffer holds FrameUnits.
InputSizes == {3}
FrameUnits == 2

PushFrame(size) ==
    /\ ~input_closed
    /\ pushed < MaxInput
    /\ input_ch' = Append(input_ch, [kind |-> "frame", size |-> size])
    /\ pushed' = pushed + 1
    /\ UNCHANGED <<run_pc, closing_ws, conn, ws_state, ws_config, ws_sent,
                   sent_total, send_pc, recv_pc, wait_pc, remote, received,
                   fault, bstream, frames, input_closed, event_ch,
                   speech_duration, ovars, otherThanStt>>

Flush ==
    /\ ~input_closed
    /\ pushed < MaxInput
    /\ input_ch' = Append(input_ch, [kind |-> "flush", size |-> 0])
    /\ pushed' = pushed + 1
    /\ UNCHANGED <<run_pc, closing_ws, conn, ws_state, ws_config, ws_sent,
                   sent_total, send_pc, recv_pc, wait_pc, remote, received,
                   fault, bstream, frames, input_closed, event_ch,
                   speech_duration, ovars, otherThanStt>>

EndInput ==
    /\ ~input_closed
    /\ input_closed' = TRUE
    /\ UNCHANGED <<run_pc, closing_ws, conn, ws_state, ws_config, ws_sent,
                   sent_total, send_pc, recv_pc, wait_pc, remote, received,
                   fault, bstream, frames, input_ch, pushed, event_ch,
                   speech_duration, ovars, otherThanStt>>

\* ---- send_task

\* n frames of d units each.
Repeat(d, n) == [k \in 1 .. n |-> d]

\* AudioByteStream.write: the full buffers that the data completes.
BStreamWrite(buffered, size) == Repeat(FrameUnits, (buffered + size) \div FrameUnits)

\* AudioByteStream.flush: what is buffered, as one shorter frame.
BStreamFlush(buffered) == IF buffered > 0 THEN <<buffered>> ELSE <<>>

\* send_task: the next item of the input channel becomes frames.
SendNext ==
    /\ send_pc = "running"
    /\ frames = <<>>
    /\ input_ch # <<>>
    /\ LET data == Head(input_ch) IN
         IF data.kind = "flush"
         THEN /\ frames' = BStreamFlush(bstream)
              /\ bstream' = 0
         ELSE /\ frames' = BStreamWrite(bstream, data.size)
              /\ bstream' = (bstream + data.size) % FrameUnits
    /\ input_ch' = Tail(input_ch)
    /\ UNCHANGED <<run_pc, closing_ws, conn, ws_state, ws_config, ws_sent,
                   sent_total, send_pc, recv_pc, wait_pc, remote, received,
                   fault, input_closed, pushed, event_ch, speech_duration,
                   ovars, otherThanStt>>

\* send_task: one frame is accounted for and sent.
SendFrame ==
    /\ send_pc = "running"
    /\ frames # <<>>
    /\ speech_duration' = speech_duration + Head(frames)
    /\ ws_sent' = Append(ws_sent, [kind |-> "frame", duration |-> Head(frames)])
    /\ sent_total' = sent_total + Head(frames)
    /\ frames' = Tail(frames)
    /\ UNCHANGED <<run_pc, closing_ws, conn, ws_state, ws_config, send_pc,
                   recv_pc, wait_pc, remote, received, fault, bstream,
                   input_ch, input_closed, pushed, event_ch, ovars,
                   otherThanStt>>

\* "async for data in self._input_ch" ends: the channel is closed and drained.
InputEnded_OnEmpty == input_ch = <<>>
InputEnded == input_ch = <<>> /\ input_closed

\* send_task: the input has ended; closing_ws is set before the send.
SendClosing ==
    /\ send_pc = "running"
    /\ frames = <<>>
    /\ InputEnded
    /\ closing_ws' = TRUE
    /\ send_pc' = "terminating"
    /\ UNCHANGED <<run_pc, conn, ws_state, ws_config, ws_sent, sent_total,
                   recv_pc, wait_pc, remote, received, fault, bstream,
                   frames, input_ch, input_closed, pushed, event_ch,
                   speech_duration, ovars, otherThanStt>>

\* send_task: the Terminate message is sent and the task returns.
SendTerminate ==
    /\ send_pc = "terminating"
    /\ ws_sent' = Append(ws_sent, [kind |-> "Terminate", duration |-> 0])
    /\ send_pc' = "done"
    /\ UNCHANGED <<run_pc, closing_ws, conn, ws_state, ws_config, sent_total,
                   recv_pc, wait_pc, remote, received, fault, bstream,
                   frames, input_ch, input_closed, pushed, event_ch,
                   speech_duration, ovars, otherThanStt>>

\* send_task: ws.send_bytes or ws.send_str raises on a lost connection. The
\* frame whose send_bytes raised was added to _speech_duration the line before.
SendRaises ==
    /\ \/ /\ send_pc = "running"
          /\ frames # <<>>
          /\ speech_duration' = speech_duration + Head(frames)
       \/ /\ send_pc = "terminating"
          /\ speech_duration' = speech_duration
    /\ send_pc' = "raised"
    /\ fault' = Raised("send", SendError)
    /\ UNCHANGED <<run_pc, closing_ws, conn, ws_state, ws_config, ws_sent,
                   sent_total, recv_pc, wait_pc, remote, received, bstream,
                   frames, input_ch, input_closed, pushed, event_ch, ovars,
                   otherThanStt>>

\* ---- _process_stream_event

\* NotGiven is falsy; a given format_turns is its own truth value.
Truthy(value) == value = "True"

SpeechEvent(type, audio_duration) ==
    [type |-> type, audio_duration |-> audio_duration]

\* The payloads of the TEXT messages the service may send. words_ok is false
\* when an entry of words lacks "text" or "word_is_final".
TextData ==
    [type : {"Turn"}, transcript : {"", "text"}, end_of_turn : BOOLEAN,
     turn_is_formatted : BOOLEAN, words_ok : {TRUE}]
    \cup
    [type : {"Turn"}, transcript : {"text"}, end_of_turn : {FALSE},
     turn_is_formatted : {FALSE}, words_ok : {FALSE}]
    \cup
    [type : {"Begin", "<invalid json>"}, transcript : {""},
     end_of_turn : {FALSE}, turn_is_formatted : {FALSE}, words_ok : {TRUE}]

\* "not format_turns or (format_turns and turn_is_formatted)"
EmitsFinal_Always(format_turns, turn_is_formatted) == TRUE
EmitsFinal(format_turns, turn_is_formatted) ==
    ~Truthy(format_turns) \/ (Truthy(format_turns) /\ turn_is_formatted)

\* "if self._speech_duration > 0.0"
UsageDue_Always(duration) == TRUE
UsageDue(duration) == duration > 0

\* _process_stream_event(data), with the caller's "except Exception": the
\* events it appends to the event channel and the speech duration it leaves.
ProcessStreamEvent(data, format_turns, duration) ==
    IF data.type # "Turn"
    THEN [emitted |-> <<>>, speech_duration |-> duration]
    ELSE IF data.transcript # "" /\ data.end_of_turn
    THEN IF EmitsFinal(format_turns, data.turn_is_formatted)
         THEN IF UsageDue(duration)
              THEN [emitted |-> <<SpeechEvent("FINAL_TRANSCRIPT", 0),
                                  SpeechEvent("END_OF_SPEECH", 0),
                                  SpeechEvent("RECOGNITION_USAGE", duration)>>,
                    speech_duration |-> 0]
              ELSE [emitted |-> <<SpeechEvent("FINAL_TRANSCRIPT", 0),
                                  SpeechEvent("END_OF_SPEECH", 0)>>,
                    speech_duration |-> duration]
         ELSE [emitted |-> <<>>, speech_duration |-> duration]
    ELSE IF data.words_ok
    THEN [emitted |-> <<SpeechEvent("INTERIM_TRANSCRIPT", 0)>>,
          speech_duration |-> duration]
    ELSE [emitted |-> <<>>, speech_duration |-> duration]

\* ---- the remote side of the current websocket

\* The service starts sending messages.
RemoteTalks ==
    /\ ws_state = "open"
    /\ remote = "silent"
    /\ remote' = "talking"
    /\ UNCHANGED <<run_pc, closing_ws, conn, ws_state, ws_config, ws_sent,
                   sent_total, send_pc, recv_pc, wait_pc, received, fault,
                   bstream, frames, input_ch, input_closed, pushed, event_ch,
                   speech_duration, ovars, otherThanStt>>

\* The service stops sending for longer than the receive timeout.
RemoteSilent ==
    /\ ws_state = "open"
    /\ remote = "talking"
    /\ remote' = "silent"
    /\ UNCHANGED <<run_pc, closing_ws, conn, ws_state, ws_config, ws_sent,
                   sent_total, send_pc, recv_pc, wait_pc, received, fault,
                   bstream, frames, input_ch, input_closed, pushed, event_ch,
                   speech_duration, ovars, otherThanStt>>

\* The service closes the websocket.
RemoteCloses ==
    /\ ws_state = "open"
    /\ remote \in {"silent", "talking"}
    /\ remote' = "closed"
    /\ UNCHANGED <<run_pc, closing_ws, conn, ws_state, ws_config, ws_sent,
                   sent_total, send_pc, recv_pc, wait_pc, received, fault,
                   bstream, frames, input_ch, input_closed, pushed, event_ch,
                   speech_duration, ovars, otherThanStt>>

\* ---- recv_task

CloseTypes == {"CLOSED", "CLOSE", "CLOSING"}
OtherTypes == {"BINARY", "ERROR"}

\* recv_task, on a timeout: leave the loop when closing, wait again otherwise.
OnTimeout_Continue(closing) == "running"
OnTimeout(closing) == IF closing THEN "timed_out" ELSE "running"

\* recv_task: ws.receive() timed out after 5 seconds.
RecvTimeout ==
    /\ recv_pc = "running"
    /\ remote = "silent"
    /\ recv_pc' = OnTimeout(closing_ws)
    /\ UNCHANGED <<run_pc, closing_ws, conn, ws_state, ws_config, ws_sent,
                   sent_total, send_pc, wait_pc, remote, received, fault,
                   bstream, frames, input_ch, input_closed, pushed, event_ch,
                   speech_duration, ovars, otherThanStt>>

\* recv_task, on a close message: return when the close is expected, raise
\* otherwise.
OnCloseMessage_Swallowed(closing) == "return"
OnCloseMessage(closing) == IF closing THEN "return" ELSE "raise"

\* recv_task: a CLOSED, CLOSE or CLOSING message is received.
RecvClose(type) ==
    /\ recv_pc = "running"
    /\ remote = "closed"
    /\ type \in CloseTypes
    /\ IF OnCloseMessage(closing_ws) = "return"
       THEN /\ recv_pc' = "closed"
            /\ fault' = fault
       ELSE /\ recv_pc' = "raised"
            /\ fault' = Raised("recv", APIStatusError)
    /\ UNCHANGED <<run_pc, closing_ws, conn, ws_state, ws_config, ws_sent,
                   sent_total, send_pc, wait_pc, remote, received, bstream,
                   frames, input_ch, input_closed, pushed, event_ch,
                   speech_duration, ovars, otherThanStt>>

\* recv_task: a message that is neither a close nor TEXT is logged and skipped.
RecvOther(type) ==
    /\ recv_pc = "running"
    /\ remote = "talking"
    /\ type \in OtherTypes
    /\ received' = 1 - received
    /\ UNCHANGED <<run_pc, closing_ws, conn, ws_state, ws_config, ws_sent,
                   sent_total, send_pc, recv_pc, wait_pc, remote, fault,
                   bstream, frames, input_ch, input_closed, pushed, event_ch,
                   speech_duration, ovars, otherThanStt>>

\* recv_task: a TEXT message is handed to _process_stream_event.
RecvText(data) ==
    /\ recv_pc = "running"
    /\ remote = "talking"
    /\ Len(event_ch) < MaxChannel
    /\ LET out == ProcessStreamEvent(data, Self.opts.format_turns,
                                     speech_duration) IN
         /\ event_ch' = event_ch \o out.emitted
         /\ speech_duration' = out.speech_duration
    /\ received' = 1 - received
    /\ UNCHANGED <<run_pc, closing_ws, conn, ws_state, ws_config, ws_sent,
                   sent_total, send_pc, recv_pc, wait_pc, remote, fault,
                   bstream, frames, input_ch, input_closed, pushed, ovars,
                   otherThanStt>>

\* ---- the connection loop of _run

\* _connect_ws: the live_config, a field that is not given left out (None).
LiveConfig(opts) ==
    [sample_rate |-> opts.sample_rate,
     encoding |-> opts.encoding,
     format_turns |-> opts.format_turns,
     end_of_turn_confidence_threshold |-> opts.end_of_turn_confidence_threshold,
     min_end_of_turn_silence_when_confident |->
         opts.min_end_of_turn_silence_when_confident,
     max_turn_silence |-> opts.max_turn_silence]

\* _run: _connect_ws builds the url from the options as they are now and
\* awaits session.ws_connect.
ConnectWs ==
    /\ run_pc = "connect"
    /\ conn < MaxConnections
    /\ ws_config' = LiveConfig(Self.opts)
    /\ run_pc' = "connecting"
    /\ UNCHANGED <<closing_ws, conn, ws_state, ws_sent, sent_total, send_pc,
                   recv_pc, wait_pc, remote, received, fault, bstream,
                   frames, input_ch, input_closed, pushed, event_ch,
                   speech_duration, ovars, otherThanStt>>

\* _run: ws_connect succeeds; send_task, recv_task and the wait on the
\* reconnect event are started on the new websocket.
Connect ==
    /\ run_pc = "connecting"
    /\ conn' = conn + 1
    /\ ws_state' = "open"
    /\ remote' = "silent"
    /\ ws_sent' = <<>>
    /\ send_pc' = "running"
    /\ recv_pc' = "running"
    /\ wait_pc' = "running"
    /\ bstream' = 0
    /\ frames' = <<>>
    /\ fault' = [fault EXCEPT !.send = NoFault, !.recv = NoFault,
                              !.gather = NoFault]
    /\ run_pc' = "wait"
    /\ UNCHANGED <<closing_ws, ws_config, sent_total, received, input_ch,
                   input_closed, pushed, event_ch, speech_duration, ovars,
                   otherThanStt>>

\* _run: ws_connect raises; the previous websocket, if any, is closed again
\* by the outer finally and the exception leaves _run.
ConnectFails ==
    /\ run_pc = "connecting"
    /\ fault' = [fault EXCEPT !.run = ConnectError]
    /\ run_pc' = "raised"
    /\ UNCHANGED <<closing_ws, conn, ws_state, ws_config, ws_sent,
                   sent_total, send_pc, recv_pc, wait_pc, remote, received,
                   bstream, frames, input_ch, input_closed, pushed, event_ch,
                   speech_duration, ovars, otherThanStt>>

\* recv_task ended normally: it returned on the expected close ("closed")
\* or left its loop on a timeout while closing ("timed_out").
RecvFinished == recv_pc \in {"closed", "timed_out"}

\* gather(*tasks) is done: both tasks finished, or one raised.
GatherDone ==
    \/ send_pc = "done" /\ RecvFinished
    \/ send_pc = "raised"
    \/ recv_pc = "raised"

\* wait_reconnect_task is done: the reconnect event is set.
ReconnectDone == Self.reconnect_event

\* A task that has not ended.
Running == {"running", "terminating"}

\* gracefully_cancel: a task that is still running is cancelled and awaited.
Cancelled_NotCancelled(pc) == pc
Cancelled(pc) == IF pc \in Running THEN "cancelled" ELSE pc

\* What _run does with the set "done" that asyncio.wait returned:
\* task.result() re-raises the fault of gather, "break" leaves the loop when
\* the reconnect wait is not done, and otherwise the loop goes round.
WakeOutcome_ReconnectFirst(gather_done, gather_fault, reconnect_done) ==
    IF reconnect_done THEN "reconnect"
    ELSE IF gather_done /\ gather_fault # NoFault THEN "raise"
    ELSE "return"
WakeOutcome(gather_done, gather_fault, reconnect_done) ==
    IF gather_done /\ gather_fault # NoFault THEN "raise"
    ELSE IF ~reconnect_done THEN "return"
    ELSE "reconnect"

\* _run: asyncio.wait returns; the result of gather is taken, the loop is
\* left or the reconnect event is cleared, and the inner finally cancels and
\* awaits the three tasks.
RunWake ==
    /\ run_pc = "wait"
    /\ GatherDone \/ ReconnectDone
    /\ LET outcome == WakeOutcome(GatherDone, fault.gather, ReconnectDone) IN
         /\ run_pc' = CASE outcome = "raise" -> "close_then_raise"
                        [] outcome = "return" -> "close_then_return"
                        [] OTHER -> "close_then_connect"
         /\ fault' = IF outcome = "raise"
                     THEN [fault EXCEPT !.run = fault.gather] ELSE fault
         /\ streams' = IF outcome = "reconnect"
                       THEN [streams EXCEPT ![RunStream].reconnect_event = FALSE]
                       ELSE streams
    /\ send_pc' = Cancelled(send_pc)
    /\ recv_pc' = Cancelled(recv_pc)
    /\ wait_pc' = Cancelled(IF ReconnectDone THEN "done" ELSE wait_pc)
    /\ UNCHANGED <<closing_ws, conn, ws_state, ws_config, ws_sent, sent_total,
                   remote, received, bstream, frames, input_ch, input_closed,
                   pushed, event_ch, speech_duration, stt_opts, otherThanStt>>

\* _run: the outer finally closes the websocket; then the loop goes on, or
\* _run returns, or the exception leaves _run.
RunClose ==
    /\ run_pc \in {"close_then_raise", "close_then_return", "close_then_connect"}
    /\ ws_state' = "closed"
    /\ remote' = "none"
    /\ run_pc' = CASE run_pc = "close_then_raise" -> "raised"
                   [] run_pc = "close_then_return" -> "returned"
                   [] OTHER -> "connect"
    /\ UNCHANGED <<closing_ws, conn, ws_config, ws_sent, sent_total, send_pc,
                   recv_pc, wait_pc, received, fault, bstream, frames,
                   input_ch, input_closed, pushed, event_ch, speech_duration,
                   ovars, otherThanStt>>

\* ===================================================================== Init

InitHandle ==
    /\ steps = <<>>
    /\ interrupted = FALSE
    /\ allow_interruptions = TRUE
    /\ run_ctx = <<>>

\* No _run is followed: its variables rest.
InitRunIdle ==
    /\ run_pc = "none"
    /\ closing_ws = FALSE
    /\ conn = 0
    /\ ws_state = "none"
    /\ ws_config = LiveConfig(STTOptions(NOT_GIVEN))
    /\ ws_sent = <<>>
    /\ sent_total = 0
    /\ send_pc = "none"
    /\ recv_pc = "none"
    /\ wait_pc = "none"
    /\ remote = "none"
    /\ received = 0
    /\ fault = [send |-> NoFault, recv |-> NoFault, gather |-> NoFault,
                run |-> NoFault]
    /\ bstream = 0
    /\ frames = <<>>
    /\ input_ch = <<>>
    /\ input_closed = FALSE
    /\ pushed = 0
    /\ event_ch = <<>>
    /\ speech_duration = 0

\* STT.__init__: the options, and no stream yet.
InitStt ==
    /\ stt_opts = STTOptions(NOT_GIVEN)
    /\ streams = <<>>

Init == InitHandle /\ InitEvents /\ InitStt /\ InitRunIdle

\* STT.__init__ with some format_turns, STT.stream() for RunStream, and the
\* stream's _run entered: closing_ws is false and no websocket is open.
InitRun ==
    /\ InitHandle
    /\ InitEvents
    /\ \E format_turns \in {NOT_GIVEN, "True"} :
          /\ stt_opts = STTOptions(format_turns)
          /\ streams = (RunStream :> [opts |-> STTOptions(format_turns),
                                      reconnect_event |-> FALSE])
    /\ run_pc = "connect"
    /\ closing_ws = FALSE
    /\ conn = 0
    /\ ws_state = "none"
    /\ ws_config = LiveConfig(STTOptions(NOT_GIVEN))
    /\ ws_sent = <<>>
    /\ sent_total = 0
    /\ send_pc = "none"
    /\ recv_pc = "none"
    /\ wait_pc = "none"
    /\ remote = "none"
    /\ received = 0
    /\ fault = [send |-> NoFault, recv |-> NoFault, gather |-> NoFault,
                run |-> NoFault]
    /\ bstream = 0
    /\ frames = <<>>
    /\ input_ch = <<>>
    /\ input_closed = FALSE
    /\ pushed = 0
    /\ event_ch = <<>>
    /\ speech_duration = 0

\* The streams an STT hands out.
Streams == {"s1", "s2"}

\* The option updates made on one stream directly, next to the broadcast.
DirectUpdateArgs ==
    {args \in UpdateArgs :
        /\ args.end_of_turn_confidence_threshold = NOT_GIVEN
        /\ args.min_end_of_turn_silence_when_confident = NOT_GIVEN}

\* The option updates that arrive on RunStream while its _run is followed:
\* one field is given a value other than the one the stream started with.
RunUpdateArgs ==
    {args \in UpdateArgs :
        /\ args.buffer_size_seconds = NOT_GIVEN
        /\ args.end_of_turn_confidence_threshold = NOT_GIVEN
        /\ args.min_end_of_turn_silence_when_confident = NOT_GIVEN
        /\ args.max_turn_silence = "v1"}

NextOptions ==
    \/ \E s \in Streams : Stream(s)
    \/ \E s \in Streams : Collect(s)
    \/ \E args \in UpdateArgs : STTUpdateOptions(args)
    \/ \E s \in Streams, args \in DirectUpdateArgs : StreamUpdateOptions(s, args)

NextRun ==
    \/ \E size \in InputSizes : PushFrame(size)
    \/ Flush
    \/ EndInput
    \/ SendNext
    \/ SendFrame
    \/ SendClosing
    \/ SendTerminate
    \/ SendRaises
    \/ RemoteTalks
    \/ RemoteSilent
    \/ RemoteCloses
    \/ RecvTimeout
    \/ \E type \in CloseTypes : RecvClose(type)
    \/ \E type \in OtherTypes : RecvOther(type)
    \/ \E data \in TextData : RecvText(data)
    \/ ConnectWs
    \/ Connect
    \/ ConnectFails
    \/ RunWake
    \/ RunClose
    \/ \E args \in RunUpdateArgs : StreamUpdateOptions(RunStream, args)

\* The TEXT messages followed where only the progress of _run is in question:
\* recv_task goes round its loop on any TEXT message whatever it says
\* (stt.py:250-257), so the control messages and the formatted end of turn
\* stand for them all.
ProgressData ==
    {data \in TextData :
        \/ data.type # "Turn"
        \/ data.transcript # "" /\ data.end_of_turn /\ data.turn_is_formatted}

NextRunFair ==
    \/ \E size \in InputSizes : PushFrame(size)
    \/ Flush
    \/ EndInput
    \/ SendNext
    \/ SendFrame
    \/ SendClosing
    \/ SendTerminate
    \/ SendRaises
    \/ RemoteTalks
    \/ RemoteSilent
    \/ RemoteCloses
    \/ RecvTimeout
    \/ \E type \in CloseTypes : RecvClose(type)
    \/ \E type \in OtherTypes : RecvOther(type)
    \/ \E data \in ProgressData : RecvText(data)
    \/ ConnectWs
    \/ Connect
    \/ ConnectFails
    \/ RunWake
    \/ RunClose
    \/ \E args \in RunUpdateArgs : StreamUpdateOptions(RunStream, args)

NextHandle ==
    \/ CreateStep
    \/ \E i \in 0 .. (MaxSteps - 1) : MarkStepPlaying(i)
    \/ \E i \in 0 .. (MaxSteps - 1) : MarkStepDone(i)
    \/ Interrupt
    \/ \E v \in BOOLEAN : SetAllowInterruptions(v)
    \/ \E r \in RunContexts : NewRunContext(r)
    \/ \E r \in RunContexts : DisallowInterruptions(r)
    \/ \E r \in RunContexts : WaitForPlayout(r)
    \/ \E r \in RunContexts : WaitResume(r)

SpecHandle == Init /\ [][NextHandle]_vars

\* The event loop resumes a waiter whose awaited step future is resolved.
SpecHandleFair == SpecHandle /\ \A r \in RunContexts : WF_vars(WaitResume(r))

SpecEvents == Init /\ [][NextEvents]_vars

SpecOptions == Init /\ [][NextOptions]_vars

SpecRun == InitRun /\ [][NextRun]_vars

\* The event loop runs every task that can run: send_task goes on while it
\* has something to do, recv_task's wait_for times out while nothing arrives
\* and sees the close once the service has closed, ws_connect completes
\* unless it fails, and _run goes on when asyncio.wait or a finally block lets
\* it. Whether and when the service talks, falls silent or closes is its own.
SpecRunFair ==
    /\ InitRun
    /\ [][NextRunFair]_vars
    /\ WF_vars(SendNext)
    /\ WF_vars(SendFrame)
    /\ WF_vars(SendClosing)
    /\ WF_vars(SendTerminate)
    /\ WF_vars(RecvTimeout)
    /\ WF_vars(\E type \in CloseTypes : RecvClose(type))
    /\ WF_vars(ConnectWs)
    /\ WF_vars(Connect)
    /\ WF_vars(RunWake)
    /\ WF_vars(RunClose)

\* ================================================= claims on the Run Context

Released == {"returned", "cancelled"}

\* C1, safety part: a waiter of RunContext.wait_for_playout is released only
\* when the step at its captured initial_step_idx exists and is terminal, and
\* its outcome is that step's outcome.
C1_ReleasedOnlyWhenStepTerminal ==
    \A r \in Constructed :
        /\ run_ctx[r].wait = "returned" =>
              /\ run_ctx[r].initial_step_idx \in StepIndices
              /\ steps[run_ctx[r].initial_step_idx + 1] = "done"
        /\ run_ctx[r].wait = "cancelled" =>
              /\ run_ctx[r].initial_step_idx \in StepIndices
              /\ steps[run_ctx[r].initial_step_idx + 1] = "cancelled"

\* C1: RunContext.wait_for_playout is never released before the step at the
\* captured initial_step_idx is terminal, and once that step is terminal a
\* suspended waiter is released, whatever the status of the later steps.
C1_WaitScopedToInitialStep ==
    /\ []C1_ReleasedOnlyWhenStepTerminal
    /\ \A r \in RunContexts :
          (r \in Constructed /\ run_ctx[r].wait = "waiting"
              /\ StepTerminal(run_ctx[r].initial_step_idx))
          ~> (r \in Constructed /\ run_ctx[r].wait \in Released)

\* C1 witness: a context with initial_step_idx = 0 has returned from
\* wait_for_playout while step 1 of the same handle is still pending.
C1_Witness ==
    \E r \in Constructed :
        /\ run_ctx[r].initial_step_idx = 0
        /\ run_ctx[r].wait = "returned"
        /\ num_steps = 2
        /\ steps[1] = "done"
        /\ steps[2] = "pending"

\* C2: a Run Context captures initial_step_idx = num_steps - 1 when it is
\* constructed, no later step of the handle or of any context changes the
\* captured value, and it is always <= the handle's current num_steps - 1.
C2_InitialStepIdxCaptured ==
    /\ [][\A r \in RunContexts :
            /\ (r \notin Constructed /\ r \in Constructed') =>
                  run_ctx'[r].initial_step_idx = num_steps - 1
            /\ (r \in Constructed) =>
                  /\ r \in Constructed'
                  /\ run_ctx'[r].initial_step_idx = run_ctx[r].initial_step_idx
         ]_vars
    /\ [](\A r \in Constructed : run_ctx[r].initial_step_idx <= num_steps - 1)

\* C2 witness: a context captured step 0, and since then two more steps were
\* created, the handle was interrupted, interruptions were disallowed and the
\* context waited for playout.
C2_Witness ==
    \E r \in Constructed :
        /\ run_ctx[r].initial_step_idx = 0
        /\ num_steps = 3
        /\ interrupted
        /\ run_ctx[r].disallow = "ok"
        /\ run_ctx[r].wait \in Released

\* C3: RunContext.disallow_interruptions on a handle that is not interrupted
\* sets allow_interruptions to false; on an interrupted handle it fails with
\* the invalid-state error, whatever the flag was, and leaves the flag and
\* every other field of the handle unchanged.
C3_DisallowInterruptions ==
    [][\A r \in RunContexts :
          DisallowInterruptions(r) =>
              IF interrupted
              THEN /\ run_ctx'[r].disallow = "invalid_state"
                   /\ UNCHANGED <<steps, interrupted, allow_interruptions>>
              ELSE /\ run_ctx'[r].disallow = "ok"
                   /\ allow_interruptions' = FALSE
                   /\ UNCHANGED <<steps, interrupted>>
      ]_vars

\* C3 witness: one context disallowed interruptions on the live handle, and
\* another one failed with invalid-state on the interrupted handle whose flag
\* was true at the time and still is.
C3_Witness ==
    \E r, q \in Constructed :
        /\ run_ctx[r].disallow = "ok"
        /\ run_ctx[q].disallow = "invalid_state"
        /\ interrupted
        /\ allow_interruptions

\* ============================================== claims on the event records

ToolEvents ==
    {i \in 1 .. Len(events) : events[i].type = "function_tools_executed"}

\* C4: every function_tools_executed event that exists has function_calls and
\* function_call_outputs of equal length, whatever mix of None and completed
\* outputs it holds; a construction with lists of different length raises and
\* builds nothing; no later step makes the lengths of an existing event differ.
C4_ListsHaveEqualLength ==
    /\ [](\A i \in ToolEvents :
            Len(events[i].function_calls) = Len(events[i].function_call_outputs))
    /\ [][last_call'.op = "function_tools_executed" =>
           \A function_calls \in CallLists, function_call_outputs \in OutputLists :
              (/\ Len(function_calls) # Len(function_call_outputs)
               /\ NewFunctionToolsExecuted(function_calls, function_call_outputs))
              => (events' = events /\ last_call'.result = "ValueError")
         ]_vars

\* C4 witness: an event with one not-completed and one completed output
\* exists, and the latest construction, with lists of different length, raised.
C4_Witness ==
    /\ \E i \in ToolEvents :
          events[i].function_call_outputs = <<None, "output">>
    /\ last_call = [op |-> "function_tools_executed", result |-> "ValueError"]

\* What C5 asks of zipped() on one event: one pair per call, in call order,
\* each call beside the output at its own position.
PairedInOrder(ev, pairs) ==
    /\ Len(pairs) = Len(ev.function_calls)
    /\ \A k \in 1 .. Len(ev.function_calls) :
          pairs[k] = <<ev.function_calls[k], ev.function_call_outputs[k]>>

\* C5: zipped() returns exactly one pair per call, in call order: the k-th
\* pair is (function_calls[k], function_call_outputs[k]), a None output kept
\* at its call's position; this holds of every event that exists and of the
\* result of every zipped() call made.
C5_ZippedPairsInOrder ==
    /\ \A i \in ToolEvents : PairedInOrder(events[i], Zipped(events[i]))
    /\ last_call.op = "zipped" =>
          \E i \in ToolEvents : PairedInOrder(events[i], last_call.result)

\* C5 witness: zipped() was called on an event whose first call did not
\* complete, and returned the None beside the first call.
C5_Witness ==
    /\ last_call.op = "zipped"
    /\ last_call.result = <<<<"call_1", None>>, <<"call_2", "output">>>>

ItemEvents ==
    {i \in 1 .. Len(events) : events[i].type = "conversation_item_added"}

\* C7 as claimed: no conversation_item_added event carries the placeholder
\* record tagged "unknown" (such an event cannot be constructed).
C7_NoPlaceholderItem ==
    \A i \in ItemEvents : events[i].item \notin TypeDiscriminator

\* C7 as amended: the item of a conversation_item_added event is always a
\* tagged record that is a conversation message or the placeholder tagged
\* "unknown"; any other item is rejected at construction.
C7_ItemIsMessageOrPlaceholder ==
    \A i \in ItemEvents :
        /\ events[i].item \in ChatMessage \cup TypeDiscriminator
        /\ events[i].item.type \in {"message", "unknown"}

\* C7 witness: an event carrying the placeholder exists, and the latest
\* construction, with an item that is neither, was rejected.
C7_Witness ==
    /\ \E i \in ItemEvents : events[i].item = [type |-> "unknown"]
    /\ last_call = [op |-> "conversation_item_added",
                    result |-> "ValidationError"]

CloseEvents == {i \in 1 .. Len(events) : events[i].type = "close"}

\* C8: every close event carries one reason, which is one of exactly five
\* distinct causes; a close event without a reason, or with a reason outside
\* the five, does not exist.
C8_CloseReasonOneOfFive ==
    /\ Cardinality(CloseReason) = 5
    /\ \A i \in CloseEvents :
          /\ events[i].reason # Missing
          /\ events[i].reason \in {"error", "job_shutdown",
                                   "participant_disconnected",
                                   "user_initiated", "task_completed"}

\* C8 witness: a close event with reason task_completed exists, and the
\* latest construction of a close event, without a valid reason, was rejected.
C8_Witness ==
    /\ \E i \in CloseEvents : events[i].reason = "task_completed"
    /\ last_call = [op |-> "close", result |-> "ValidationError"]

\* ========================================== claims on the AssemblyAI stream

\* C9: in recv_task, a CLOSE, CLOSING or CLOSED message received while
\* closing_ws is false makes the task raise the retryable APIStatusError, and
\* the same message received while closing_ws is true ends the task normally,
\* with no fault; the task never ends raised for any other reason.
C9_CloseMessageInRecvTask ==
    /\ [][\A type \in CloseTypes :
            RecvClose(type) =>
                IF closing_ws
                THEN /\ recv_pc' = "closed"
                     /\ fault' = fault
                     /\ fault'.recv = NoFault
                ELSE /\ recv_pc' = "raised"
                     /\ fault'.recv.kind = "APIStatusError"
                     /\ fault'.recv.retryable
         ]_vars
    /\ [](recv_pc = "raised" => fault.recv = APIStatusError)
    /\ [](recv_pc = "closed" => closing_ws /\ fault.recv = NoFault)

\* C9 witness: on the second connection recv_task raised on a close message
\* with closing_ws false, after the first connection's recv_task had been
\* cancelled for a reconnect.
C9_Witness ==
    /\ conn = 2
    /\ recv_pc = "raised"
    /\ ~closing_ws
    /\ fault.recv = APIStatusError
    /\ fault.gather = APIStatusError
    /\ run_pc = "wait"

\* The options one update_options call leaves, stated field by field.
OptionsAfter(before, after, args) ==
    /\ \A f \in UpdatableFields :
          after[f] = IF args[f] # NOT_GIVEN THEN args[f] ELSE before[f]
    /\ \A f \in (DOMAIN before) \ UpdatableFields : after[f] = before[f]
    /\ DOMAIN after = DOMAIN before

\* C10: STT.update_options is a broadcast: after it, the STT's options and
\* the options of every registered stream hold the supplied value of each
\* supplied field and the previous value of every other field, every
\* registered stream has its reconnect event set, and the registry is the same.
C10_UpdateOptionsBroadcast ==
    [][\A args \in UpdateArgs :
          STTUpdateOptions(args) =>
              /\ OptionsAfter(stt_opts, stt_opts', args)
              /\ DOMAIN streams' = DOMAIN streams
              /\ \A s \in DOMAIN streams :
                    /\ OptionsAfter(streams[s].opts, streams'[s].opts, args)
                    /\ streams'[s].reconnect_event
      ]_vars

\* C10 witness: two registered streams with the reconnect event set hold the
\* broadcast value of one field, while one of them keeps, in another field, a
\* value of its own that the broadcast did not supply and the STT never had.
C10_Witness ==
    /\ DOMAIN streams = {"s1", "s2"}
    /\ \A s \in DOMAIN streams :
          /\ streams[s].reconnect_event
          /\ streams[s].opts.end_of_turn_confidence_threshold = "v1"
    /\ stt_opts.end_of_turn_confidence_threshold = "v1"
    /\ stt_opts.buffer_size_seconds = "0.05"
    /\ streams["s1"].opts.buffer_size_seconds = "v1"
    /\ streams["s2"].opts.buffer_size_seconds = "0.05"

\* ====================================== claims on the connection loop of _run

\* The tasks of the current connection that have not ended.
TasksRunning ==
    {t \in {"send", "recv", "wait"} :
        CASE t = "send" -> send_pc \in Running
          [] t = "recv" -> recv_pc \in Running
          [] OTHER -> wait_pc \in Running}

\* C11: however a connection iteration ends (input finished, reconnect
\* requested, a task raised), the wake-up of _run leaves none of send_task,
\* recv_task and the reconnect wait running, and the websocket is closed
\* before _run connects again, returns or raises: whenever _run is about to
\* connect, is connecting, has returned or has raised, no task runs and no
\* websocket is open, so no task of an earlier connection runs beside a later
\* connection.
C11_TasksCancelledAndSocketClosed ==
    /\ [][RunWake => (send_pc' \notin Running /\ recv_pc' \notin Running
                       /\ wait_pc' \notin Running)]_vars
    /\ [][RunClose => ws_state' = "closed"]_vars
    /\ [](run_pc \in {"close_then_raise", "close_then_return",
                       "close_then_connect"} => TasksRunning = {})
    /\ [](run_pc \in {"connect", "connecting", "returned", "raised"}
            => (TasksRunning = {} /\ ws_state # "open"))
    /\ [][Connect => (TasksRunning = {} /\ ws_state # "open")]_vars

\* C11 witness: a reconnect was requested while send_task and recv_task were
\* both running; they and the reconnect wait have ended, the first websocket
\* is closed, and _run is about to open the second connection.
C11_Witness ==
    /\ run_pc = "connect"
    /\ conn = 1
    /\ send_pc = "cancelled"
    /\ recv_pc = "cancelled"
    /\ wait_pc = "done"
    /\ ws_state = "closed"

\* =========================================== claims on _process_stream_event

TurnMessages == {data \in TextData : data.type = "Turn"}

\* The Turn messages with a non-empty transcript and end_of_turn set.
EndOfTurnMessages ==
    {data \in TurnMessages : data.transcript # "" /\ data.end_of_turn}

\* format_turns is enabled on the stream whose _run is followed.
FormatTurnsEnabled == Self.opts.format_turns = "True"

EventsOfType(type) == {i \in 1 .. Len(event_ch) : event_ch[i].type = type}

\* C12: an end-of-turn Turn message with a non-empty transcript that
\* format_turns does not suppress appends FINAL_TRANSCRIPT, then
\* END_OF_SPEECH, then RECOGNITION_USAGE carrying the accumulated speech
\* duration if and only if that duration is greater than zero, and nothing
\* else; in the channel every FINAL_TRANSCRIPT is directly followed by an
\* END_OF_SPEECH and every RECOGNITION_USAGE directly follows one and reports
\* a duration greater than zero.
C12_FinalThenEndOfSpeechThenUsage ==
    /\ [][\A data \in EndOfTurnMessages :
            (/\ ~FormatTurnsEnabled \/ data.turn_is_formatted
             /\ RecvText(data))
            => event_ch' =
                 event_ch
                 \o <<SpeechEvent("FINAL_TRANSCRIPT", 0),
                      SpeechEvent("END_OF_SPEECH", 0)>>
                 \o (IF speech_duration > 0
                     THEN <<SpeechEvent("RECOGNITION_USAGE", speech_duration)>>
                     ELSE <<>>)
         ]_vars
    /\ [](\A i \in EventsOfType("FINAL_TRANSCRIPT") :
            /\ i < Len(event_ch)
            /\ event_ch[i + 1].type = "END_OF_SPEECH")
    /\ [](\A i \in EventsOfType("RECOGNITION_USAGE") :
            /\ i > 2
            /\ event_ch[i - 1].type = "END_OF_SPEECH"
            /\ event_ch[i].audio_duration > 0)

\* C12 witness: with format_turns enabled, a formatted end-of-turn message was
\* handled after two units of audio had been sent: the channel holds the
\* three events in order and the accumulator is back at zero.
C12_Witness ==
    /\ FormatTurnsEnabled
    /\ event_ch = <<SpeechEvent("FINAL_TRANSCRIPT", 0),
                    SpeechEvent("END_OF_SPEECH", 0),
                    SpeechEvent("RECOGNITION_USAGE", 2)>>
    /\ speech_duration = 0
    /\ sent_total = 2

\* What C13 says of one handled Turn message, the second half taken with or
\* without the messages whose words are malformed.
SuppressedOrInterim(data, well_formed_only) ==
    IF data \in EndOfTurnMessages
    THEN (FormatTurnsEnabled /\ ~data.turn_is_formatted)
            => (event_ch' = event_ch /\ speech_duration' = speech_duration)
    ELSE IF data.words_ok \/ ~well_formed_only
    THEN /\ event_ch' = Append(event_ch, SpeechEvent("INTERIM_TRANSCRIPT", 0))
         /\ speech_duration' = speech_duration
    ELSE event_ch' = event_ch /\ speech_duration' = speech_duration

GatherFaulted == GatherDone /\ fault.gather # NoFault

\* What C14 says of one wake-up of _run; the reconnect half is taken of every
\* wake-up that observes the signal, or only of those that observe no fault
\* of a task beside it.
WakeAsClaimed(also_beside_a_fault) ==
    /\ (ReconnectDone /\ (also_beside_a_fault \/ ~GatherFaulted))
          => /\ run_pc' = "close_then_connect"
             /\ ~streams'[RunStream].reconnect_event
    /\ run_pc' = "close_then_return"
          => (send_pc = "done" /\ RecvFinished /\ ~ReconnectDone)
    /\ GatherFaulted
          => /\ run_pc' = "close_then_raise"
             /\ fault'.run = fault.gather
             /\ streams' = streams

\* The teardown that follows a wake-up closes the websocket and then connects
\* again, returns, or lets the fault leave _run, as the wake-up decided.
TeardownAsDecided ==
    /\ ws_state' = "closed"
    /\ fault' = fault
    /\ run_pc' = CASE run_pc = "close_then_connect" -> "connect"
                   [] run_pc = "close_then_return" -> "returned"
                   [] OTHER -> "raised"

Terminates == {i \in 1 .. Len(ws_sent) : ws_sent[i].kind = "Terminate"}

\* C15: on each connection Terminate is sent at most once and is the last
\* thing sent, so no audio frame follows it; it is sent only when the input
\* channel has ended and is drained and no frame produced from the input on
\* this connection is left unsent; closing_ws is already true in the state
\* in which Terminate is sent.
C15_TerminateOnceAfterInput ==
    /\ [](/\ Cardinality(Terminates) <= 1
          /\ \A i \in Terminates : i = Len(ws_sent))
    /\ [](Terminates # {}
            => (input_closed /\ input_ch = <<>> /\ frames = <<>> /\ closing_ws))
    /\ [][SendTerminate
            => (closing_ws /\ input_closed /\ input_ch = <<>> /\ frames = <<>>)
         ]_vars
    /\ [][ws_sent' # ws_sent /\ Terminates # {} => Connect]_vars

\* C15 witness: a pushed frame and a flush were turned into two audio frames,
\* both were sent, the input ended, and Terminate is the third and last
\* message on the websocket.
C15_Witness ==
    /\ ws_sent = <<[kind |-> "frame", duration |-> 2],
                   [kind |-> "frame", duration |-> 1],
                   [kind |-> "Terminate", duration |-> 0]>>
    /\ send_pc = "done"
    /\ closing_ws

\* ======================================================= claims on the close

\* The input has ended and send_task has signalled the close: closing_ws is
\* true, Terminate is sent, recv_task is still receiving, and _run waits for
\* the tasks.
CloseSignalled ==
    /\ input_closed
    /\ closing_ws
    /\ Terminates # {}
    /\ send_pc = "done"
    /\ recv_pc = "running"
    /\ run_pc = "wait"

LatestConnection ==
    /\ run_pc = "wait"
    /\ ws_state = "open"
    /\ ws_config = LiveConfig(Self.opts)

\* A fault has occurred in a task or in _run.
Faulted ==
    \/ fault.send # NoFault
    \/ fault.recv # NoFault
    \/ fault.gather # NoFault
    \/ fault.run # NoFault

\* C18: no option update is lost by the reconnect loop: whenever the options
\* of the stream are updated, at any step of _run (while it waits, between
\* the wake-up and the teardown, during the teardown, while _connect_ws is
\* awaited), the stream eventually holds a connection opened with the options
\* as they then are, unless the input has ended, a fault has occurred, or as
\* many connections as are followed here have been opened.
C18_NoOptionUpdateLost ==
    (~input_closed /\ ~Faulted)
        ~> (\/ LatestConnection
            \/ input_closed
            \/ Faulted
            \/ conn = MaxConnections /\ run_pc = "connect")

\* C18 witness: an update arrived and the second connection, opened with the
\* updated value, is held with both tasks running, the input still open and
\* no fault.
C18_Witness ==
    /\ LatestConnection
    /\ conn = 2
    /\ Self.opts.max_turn_silence = "v1"
    /\ send_pc = "running"
    /\ recv_pc = "running"
    /\ ~input_closed
    /\ ~Faulted

\* ================================== claims on the captured step of a context

\* C17 as stated: the initial_step_idx of every Run Context names a step that
\* exists on its handle, 0 <= initial_step_idx <= num_steps - 1, also when the
\* context was constructed on a handle without a step, and wait_for_playout
\* never waits on a step that was never created.
C17_IndexNamesExistingStep ==
    \A r \in Constructed :
        /\ 0 <= run_ctx[r].initial_step_idx
        /\ run_ctx[r].initial_step_idx <= num_steps - 1
        /\ run_ctx[r].wait # "invalid_state"

\* C17, amended: initial_step_idx is num_steps - 1 as it was at construction,
\* so -1 <= initial_step_idx <= num_steps - 1 in every state; it names an
\* existing step, and wait_for_playout waits on that step, exactly when the
\* handle had a step at construction; a context constructed on a handle
\* without a step holds -1 for good, which names no step, and only such a
\* context's wait_for_playout meets the invalid-state error.
C17_IndexIsLastStepOrMinusOne ==
    /\ [](\A r \in Constructed :
            /\ run_ctx[r].initial_step_idx \in (StepIndices \cup {-1})
            /\ run_ctx[r].initial_step_idx >= 0
                  => run_ctx[r].wait # "invalid_state"
            /\ run_ctx[r].initial_step_idx = -1
                  => run_ctx[r].wait \in {"idle", "invalid_state"})
    /\ [][\A r \in RunContexts :
            NewRunContext(r) =>
                IF steps = <<>>
                THEN run_ctx'[r].initial_step_idx = -1
                ELSE run_ctx'[r].initial_step_idx = Len(steps) - 1
         ]_vars

\* C17 witness: one context was constructed before any step and its wait met
\* the invalid-state error although a step exists by now; another, constructed
\* after step 0, waited on step 0 and returned.
C17_Witness ==
    /\ "rc1" \in Constructed
    /\ "rc2" \in Constructed
    /\ run_ctx["rc1"].initial_step_idx = -1
    /\ run_ctx["rc1"].wait = "invalid_state"
    /\ run_ctx["rc2"].initial_step_idx = 0
    /\ run_ctx["rc2"].wait = "returned"
    /\ num_steps = 1

\* ================================================== claims on the audio usage

\* The sum of audio_duration over the RECOGNITION_USAGE events of a channel.
RECURSIVE UsageReported(_)
UsageReported(channel) ==
    IF channel = <<>> THEN 0
    ELSE (IF Head(channel).type = "RECOGNITION_USAGE"
          THEN Head(channel).audio_duration ELSE 0)
         + UsageReported(Tail(channel))

\* C19: in every state the audio reported by the RECOGNITION_USAGE events
\* emitted so far plus the accumulated speech duration equals the duration of
\* all audio frames sent on any connection of the stream, every sent frame
\* being counted exactly once; and the accumulator is zero right after a
\* usage event is emitted.
C19_UsageConserved ==
    /\ [](UsageReported(event_ch) + speech_duration = sent_total)
    /\ [][SendFrame =>
            /\ sent_total' - sent_total = Head(frames)
            /\ speech_duration' - speech_duration = Head(frames)]_vars
    /\ [][UsageReported(event_ch') # UsageReported(event_ch)
            => speech_duration' = 0]_vars
====
